---- MODULE Spec2Model ----
(***************************************************************************)
(* A model of src/src/utils/colorUtils.js: hex <-> HSL conversion, the     *)
(* three sorts, the five harmony searches over a colour collection and the *)
(* palette suggestion aggregator.                                          *)
(*                                                                         *)
(* The library is a set of synchronous functions.  The state machine is a  *)
(* caller: each action is one call, with its arguments drawn from bounded  *)
(* sets, and records the function called (fn), the arguments (args), the   *)
(* value returned (ret) and the caller's collection array as the call left *)
(* it (colors).                                                            *)
(*                                                                         *)
(* Numbers.  The code computes in IEEE doubles and rounds with Math.round. *)
(* The model computes the same quotients exactly, as integer fractions     *)
(* n/d.  The two agree whenever the exact value is not of the form k + 1/2 *)
(* (the accumulated double error is far below the distance to the nearest  *)
(* half); when it is, the double may land on either side.  The ...Exact    *)
(* predicates say that no rounding of a call is at such a half, and the    *)
(* calls the model makes are those for which they hold.                    *)
(*                                                                         *)
(* Strings.  A hex string is a sequence of one-character strings, so that  *)
(* parsing, formatting and === on strings are modelled by what they do.    *)
(***************************************************************************)
EXTENDS Integers, Sequences, FiniteSets, TLC

VARIABLES fn, args, ret, colors

vars == <<fn, args, ret, colors>>

(***************************************************************************)
(* Bounds of the model.                                                    *)
(***************************************************************************)
\* Channel values 0..MaxChannel are drawn, besides the PickedChannels.
MaxChannel == 2
\* Longest collection passed to a sort or a harmony search.
MaxLen == 3
\* Largest explicit count passed to a harmony search.
MaxCount == 3
\* Longest collection passed to generateSmartPaletteSuggestions.
MaxSuggestLen == 6

(***************************************************************************)
(* JavaScript primitives used by the file.                                 *)
(***************************************************************************)
Max2(a, b) == IF a >= b THEN a ELSE b
Min2(a, b) == IF a <= b THEN a ELSE b
Abs(a) == IF a < 0 THEN -a ELSE a

\* Math.round of the exact fraction n/d (d > 0): nearest integer, halves up.
Round(n, d) == (2 * n + d) \div (2 * d)

\* The exact fraction n/d is k + 1/2 for an integer k.
IsHalf(n, d) == (2 * n + d) % (2 * d) = 0

\* The digits Number.prototype.toString(16) produces.
Digits == <<"0", "1", "2", "3", "4", "5", "6", "7",
            "8", "9", "a", "b", "c", "d", "e", "f">>

\* String.prototype.toUpperCase on one character.
UpperChar(ch) ==
  CASE ch = "a" -> "A" [] ch = "b" -> "B" [] ch = "c" -> "C"
    [] ch = "d" -> "D" [] ch = "e" -> "E" [] ch = "f" -> "F"
    [] OTHER -> ch

toUpperCase(str) == [i \in 1..Len(str) |-> UpperChar(str[i])]

\* The value parseInt(.., 16) gives one hex digit, of either case.
DigitValue(ch) ==
  CASE ch = "0" -> 0 [] ch = "1" -> 1 [] ch = "2" -> 2 [] ch = "3" -> 3
    [] ch = "4" -> 4 [] ch = "5" -> 5 [] ch = "6" -> 6 [] ch = "7" -> 7
    [] ch = "8" -> 8 [] ch = "9" -> 9
    [] ch \in {"a", "A"} -> 10 [] ch \in {"b", "B"} -> 11
    [] ch \in {"c", "C"} -> 12 [] ch \in {"d", "D"} -> 13
    [] ch \in {"e", "E"} -> 14 [] ch \in {"f", "F"} -> 15

\* parseInt(str, 16) of a string of two hex digits.
parseInt16(str) == 16 * DigitValue(str[1]) + DigitValue(str[2])

\* String.prototype.substr(start, length), start counted from 0.
substr(str, start, length) == SubSeq(str, start + 1, start + length)

\* hex.replace('#', ''): the first '#' of the string, if any, is removed.
RECURSIVE replaceHash(_)
replaceHash(str) ==
  IF str = <<>> THEN <<>>
  ELSE IF Head(str) = "#" THEN Tail(str)
  ELSE <<Head(str)>> \o replaceHash(Tail(str))

\* x.toString(16).padStart(2, '0') of an integer 0 <= x <= 255.
toString16Pad2(x) ==
  IF x < 16 THEN <<"0", Digits[x + 1]>>
  ELSE <<Digits[(x \div 16) + 1], Digits[(x % 16) + 1]>>

(***************************************************************************)
(* hexToHsl, lines 8-47.                                                   *)
(***************************************************************************)
\* Lines 13-15 on the string line 10 leaves: the three channels 0..255
\* (before the / 255).
ParseChannels(h) ==
  [r |-> parseInt16(substr(h, 0, 2)),
   g |-> parseInt16(substr(h, 2, 2)),
   b |-> parseInt16(substr(h, 4, 2))]

Channels(hex) == ParseChannels(replaceHash(hex))

\* Lines 19-40 on channels c with largest max and smallest min: the exact
\* fractions n/d whose Math.round hexToHsl returns, h * 360 (hn/hd), s * 100
\* (sn/sd) and l * 100 (ln/ld), with r, g, b = R/255, G/255, B/255.
\*   l = (max + min) / 2 is (max + min) / 510, and l > 0.5 iff max + min > 255;
\*   switch (max) takes case r first, then case g, then case b.
FractionsOf(c, max, min) ==
  IF max = min
    THEN [hn |-> 0, hd |-> 1, sn |-> 0, sd |-> 1,
          ln |-> 100 * (max + min), ld |-> 510]
    ELSE [hn |-> 60 * (IF max = c.r
                         THEN (c.g - c.b) + (IF c.g < c.b THEN 6 * (max - min) ELSE 0)
                       ELSE IF max = c.g
                         THEN (c.b - c.r) + 2 * (max - min)
                       ELSE (c.r - c.g) + 4 * (max - min)),
          hd |-> max - min,
          sn |-> 100 * (max - min),
          sd |-> IF max + min > 255 THEN 510 - max - min ELSE max + min,
          ln |-> 100 * (max + min), ld |-> 510]

\* Lines 17-18: Math.max(r, g, b) and Math.min(r, g, b).
ChannelFractions(c) ==
  FractionsOf(c, Max2(c.r, Max2(c.g, c.b)), Min2(c.r, Min2(c.g, c.b)))

HslFractions(hex) == ChannelFractions(Channels(hex))

\* Lines 42-46.
RoundHsl(f) ==
  [h |-> Round(f.hn, f.hd), s |-> Round(f.sn, f.sd), l |-> Round(f.ln, f.ld)]

hexToHsl(hex) == RoundHsl(HslFractions(hex))

NoHalfHsl(f) == ~IsHalf(f.hn, f.hd) /\ ~IsHalf(f.sn, f.sd) /\ ~IsHalf(f.ln, f.ld)

\* No Math.round of hexToHsl(hex) is at a half: doubles and fractions agree.
hexToHslExact(hex) == NoHalfHsl(HslFractions(hex))

(***************************************************************************)
(* hslToHex, lines 383-413.                                                *)
(***************************************************************************)
\* Lines 394-410 for integer h, with c = cn / 10000, x = xn / 600000 and
\* m = mn / 20000: (r + m) * 255, (g + m) * 255 and (b + m) * 255 as
\* fractions over 600000.  h / 360 is compared with the sector bounds k/6;
\* no branch is taken at h = 360, which leaves r = g = b = 0.
SectorFractions(h, cn, xn, mn) ==
  LET rgb == IF 0 <= h /\ h < 60         THEN <<60 * cn, xn, 0>>
             ELSE IF 60 <= h /\ h < 120  THEN <<xn, 60 * cn, 0>>
             ELSE IF 120 <= h /\ h < 180 THEN <<0, 60 * cn, xn>>
             ELSE IF 180 <= h /\ h < 240 THEN <<0, xn, 60 * cn>>
             ELSE IF 240 <= h /\ h < 300 THEN <<xn, 0, 60 * cn>>
             ELSE IF 300 <= h /\ h < 360 THEN <<60 * cn, 0, xn>>
             ELSE <<0, 0, 0>>
  IN  [i \in 1..3 |-> (rgb[i] + 30 * mn) * 255]

\* Lines 388-390: x = c * (1 - |((h * 6) % 2) - 1|) and m = l - c / 2.
ChromaFractions(h, l, cn) ==
  SectorFractions(h, cn, cn * (60 - Abs((h % 120) - 60)), 200 * l - cn)

\* Line 388: c = (1 - |2 * l - 1|) * s.
RgbFractions(h, s, l) == ChromaFractions(h, l, (100 - Abs(2 * l - 100)) * s)

\* Line 412: '#' + [r, g, b].map(toString(16).padStart(2, '0')).join('').toUpperCase()
FormatRgb(r, g, b) ==
  <<"#">> \o toUpperCase(toString16Pad2(r) \o toString16Pad2(g) \o toString16Pad2(b))

\* Lines 408-412.
RoundRgb(f) ==
  FormatRgb(Round(f[1], 600000), Round(f[2], 600000), Round(f[3], 600000))

hslToHex(h, s, l) == RoundRgb(RgbFractions(h, s, l))

NoHalfRgb(f) == \A i \in 1..3 : ~IsHalf(f[i], 600000)

\* No Math.round of hslToHex(h, s, l) is at a half.
hslToHexExact(h, s, l) == NoHalfRgb(RgbFractions(h, s, l))

(***************************************************************************)
(* getComplementaryColor, lines 420-424.                                   *)
(***************************************************************************)
\* Mutant of Rotate: the rotated hue is not reduced modulo 360.
RotateNoWrap(hsl) == [h |-> hsl.h + 180, s |-> hsl.s, l |-> hsl.l]

\* Line 422: the hue turned by 180 degrees, s and l kept.
Rotate(hsl) == [h |-> (hsl.h + 180) % 360, s |-> hsl.s, l |-> hsl.l]

ComplementHsl(hex) == Rotate(hexToHsl(hex))

HslToHex(hsl) == hslToHex(hsl.h, hsl.s, hsl.l)
HslToHexExact(hsl) == hslToHexExact(hsl.h, hsl.s, hsl.l)

getComplementaryColor(hex) == HslToHex(ComplementHsl(hex))

getComplementaryColorExact(hex) ==
  hexToHslExact(hex) /\ HslToHexExact(ComplementHsl(hex))

(***************************************************************************)
(* Colour objects, numbers that may be NaN, and Array.prototype.sort.      *)
(*                                                                         *)
(* A colour is a record with the fields hex and name and, possibly, other  *)
(* fields of the caller's.  A number is [nan |-> FALSE, v |-> n], and NaN  *)
(* is what arithmetic on the undefined value of a missing field gives.     *)
(***************************************************************************)
Num(n) == [nan |-> FALSE, v |-> n]
NaN == [nan |-> TRUE, v |-> 0]

\* o.field used as a number: undefined, and so NaN, when o has no such field.
Prop(o, field) == IF field \in DOMAIN o THEN Num(o[field]) ELSE NaN

\* a - b on numbers.
Sub(a, b) == IF a.nan \/ b.nan THEN NaN ELSE Num(a.v - b.v)

\* { ...color, [field]: value }
Annotate(color, field, value) == (field :> value) @@ color

\* arr.slice(0, count) for count >= 0.
slice(arr, count) == SubSeq(arr, 1, Min2(count, Len(arr)))

\* A parameter with a default value: the argument when one is given.
Default(arg, dflt) == IF arg.given THEN arg.v ELSE dflt

\* Every comparator of the file is (a, b) => key(a) - key(b).  The sort works
\* on entries [el |-> element, key |-> key(element)].  The engine takes a
\* comparator result of NaN for 0.
Compare(a, b) ==
  LET order == Sub(a.key, b.key)
  IN  IF order.nan THEN 0 ELSE order.v

Reverse(w) == [i \in 1..Len(w) |-> w[Len(w) + 1 - i]]

\* The sort of arrays shorter than 64 elements in V8 (Node, Chrome): the
\* leading run is found (and reversed when strictly descending), then the
\* remaining elements are inserted by binary insertion.
RECURSIVE RunLength(_, _, _)
RunLength(w, idx, isDescending) ==
  IF idx > Len(w) THEN Len(w)
  ELSE LET order == Compare(w[idx], w[idx - 1])
       IN  IF (isDescending /\ order >= 0) \/ (~isDescending /\ order < 0)
             THEN idx - 1
             ELSE RunLength(w, idx + 1, isDescending)

RECURSIVE BinarySearch(_, _, _, _)
BinarySearch(w, pivot, left, right) ==
  IF left >= right THEN left
  ELSE LET mid == left + ((right - left) \div 2)
       IN  IF Compare(pivot, w[mid]) < 0
             THEN BinarySearch(w, pivot, left, mid)
             ELSE BinarySearch(w, pivot, mid + 1, right)

RECURSIVE BinaryInsertionSort(_, _)
BinaryInsertionSort(w, start) ==
  IF start > Len(w) THEN w
  ELSE LET pivot == w[start]
           left  == BinarySearch(w, pivot, 1, start)
       IN  BinaryInsertionSort(
             SubSeq(w, 1, left - 1) \o <<pivot>> \o SubSeq(w, left, start - 1)
               \o SubSeq(w, start + 1, Len(w)),
             start + 1)

ArraySort(w) ==
  IF Len(w) < 2 THEN w
  ELSE LET isDescending == Compare(w[2], w[1]) < 0
           run  == RunLength(w, 3, isDescending)
           made == IF isDescending
                     THEN Reverse(SubSeq(w, 1, run)) \o SubSeq(w, run + 1, Len(w))
                     ELSE w
       IN  BinaryInsertionSort(made, run + 1)

\* arr.sort((a, b) => a[field] - b[field]), as a new sequence.
Elements(w) == [i \in 1..Len(w) |-> w[i].el]

SortByField(arr, field) ==
  Elements(ArraySort([i \in 1..Len(arr) |-> [el |-> arr[i], key |-> Prop(arr[i], field)]]))

(***************************************************************************)
(* The sorts, lines 69-110.  A sort returns [ret |-> the array returned,   *)
(* colors |-> the argument array as the call leaves it].                   *)
(***************************************************************************)
\* The array ordered by key(a) - key(b), keys[i] the integer key of arr[i].
SortedBy(arr, keys) ==
  Elements(ArraySort([i \in 1..Len(arr) |-> [el |-> arr[i], key |-> Num(keys[i])]]))

HueKey(arr) == [i \in 1..Len(arr) |-> hexToHsl(arr[i].hex).h]
\* hslB.s - hslA.s is (-hslA.s) - (-hslB.s)
SaturationKey(arr) == [i \in 1..Len(arr) |-> 0 - hexToHsl(arr[i].hex).s]
LightnessKey(arr) == [i \in 1..Len(arr) |-> hexToHsl(arr[i].hex).l]

\* Mutant of sortColorsByHue: colors.sort(..) without the copy [...colors].
sortColorsByHueInPlace(arr) ==
  [ret |-> SortedBy(arr, HueKey(arr)), colors |-> SortedBy(arr, HueKey(arr))]

sortColorsByHue(arr) ==
  [ret |-> SortedBy(arr, HueKey(arr)), colors |-> arr]

sortColorsBySaturation(arr) ==
  [ret |-> SortedBy(arr, SaturationKey(arr)), colors |-> arr]

sortColorsByLightness(arr) ==
  [ret |-> SortedBy(arr, LightnessKey(arr)), colors |-> arr]

sortColorsChromatically(arr) == sortColorsByHue(arr)

(***************************************************************************)
(* The harmony searches, lines 119-329.                                    *)
(***************************************************************************)
\* Math.min(Math.abs(a - b), 360 - Math.abs(a - b)), written out at each use.
HueDiff(a, b) == Min2(Abs(a - b), 360 - Abs(a - b))

\* colors.find(c => c.hex === hex), as a sequence of at most one element.
FindByHex(arr, hex) ==
  IF \E i \in 1..Len(arr) : arr[i].hex = hex
    THEN <<arr[CHOOSE i \in 1..Len(arr) :
                 /\ arr[i].hex = hex
                 /\ \A j \in 1..(i - 1) : arr[j].hex # hex]>>
    ELSE <<>>

\* A forEach that pushes { ...color, [field]: score } for every colour that
\* passes, passes[i] and score[i] being the test and the score of arr[i]:
\* the pushes, in the order of the collection.
Pushes(arr, passes, field, score) ==
  LET pushed == SelectSeq([i \in 1..Len(arr) |-> i], LAMBDA i : passes[i])
  IN  [k \in 1..Len(pushed) |-> Annotate(arr[pushed[k]], field, score[pushed[k]])]

\* Mutant of findAnalogousColorsFromCollection: the window excludes its bound
\* (hueDiff < 60).
findAnalogousExclusive(arr, baseHex, count) ==
  LET baseHsl == hexToHsl(baseHex)
      hueDiff == [i \in 1..Len(arr) |-> HueDiff(hexToHsl(arr[i].hex).h, baseHsl.h)]
      passes == [i \in 1..Len(arr) |-> hueDiff[i] < 60]
      analogousColors == Pushes(arr, passes, "hueDiff", hueDiff)
  IN  slice(SortByField(analogousColors, "hueDiff"), Default(count, 5))

\* Lines 119-143.
findAnalogousColorsFromCollection(arr, baseHex, count) ==
  LET baseHsl == hexToHsl(baseHex)
      hueDiff == [i \in 1..Len(arr) |-> HueDiff(hexToHsl(arr[i].hex).h, baseHsl.h)]
      passes == [i \in 1..Len(arr) |-> hueDiff[i] <= 60]
      analogousColors == Pushes(arr, passes, "hueDiff", hueDiff)
  IN  slice(SortByField(analogousColors, "hueDiff"), Default(count, 5))

\* Mutant of FallbackScan: the fallback matches are pushed without the
\* penalty of 1000.
RECURSIVE FallbackScanNoPenalty(_, _, _, _)
FallbackScanNoPenalty(arr, complementaryColors, baseHex, baseHue) ==
  IF arr = <<>> THEN complementaryColors
  ELSE LET color == Head(arr)
           hueDiff == HueDiff(hexToHsl(color.hex).h, baseHue)
           skip == \/ color.hex = baseHex
                   \/ \E i \in 1..Len(complementaryColors) :
                        complementaryColors[i].hex = color.hex
       IN  FallbackScanNoPenalty(
             Tail(arr),
             IF ~skip /\ hueDiff <= 30
               THEN Append(complementaryColors, Annotate(color, "hueDiff", hueDiff))
               ELSE complementaryColors,
             baseHex, baseHue)

\* Lines 180-196: the second forEach, which reads the array it pushes to.
RECURSIVE FallbackScan(_, _, _, _)
FallbackScan(arr, complementaryColors, baseHex, baseHue) ==
  IF arr = <<>> THEN complementaryColors
  ELSE LET color == Head(arr)
           hueDiff == HueDiff(hexToHsl(color.hex).h, baseHue)
           skip == \/ color.hex = baseHex
                   \/ \E i \in 1..Len(complementaryColors) :
                        complementaryColors[i].hex = color.hex
       IN  FallbackScan(
             Tail(arr),
             IF ~skip /\ hueDiff <= 30
               THEN Append(complementaryColors, Annotate(color, "hueDiff", hueDiff + 1000))
               ELSE complementaryColors,
             baseHex, baseHue)

\* Lines 153-196: the array before the final sort and slice.
ComplementaryColors(arr, baseHex) ==
  LET baseHsl == hexToHsl(baseHex)
      complementaryHue == (baseHsl.h + 180) % 360
      hueDiff == [i \in 1..Len(arr) |-> HueDiff(hexToHsl(arr[i].hex).h, complementaryHue)]
      passes == [i \in 1..Len(arr) |-> arr[i].hex # baseHex /\ hueDiff[i] <= 45]
  IN  FallbackScan(arr,
                   FindByHex(arr, baseHex) \o Pushes(arr, passes, "hueDiff", hueDiff),
                   baseHex, baseHsl.h)

\* Lines 152-201.
findComplementaryColorsFromCollection(arr, baseHex, count) ==
  slice(SortByField(ComplementaryColors(arr, baseHex), "hueDiff"), Default(count, 4))

\* Mutant of findTriadicColorsFromCollection: the final slice is missing.
findTriadicNoSlice(arr, baseHex, count) ==
  LET baseHsl == hexToHsl(baseHex)
      triadic1 == (baseHsl.h + 120) % 360
      triadic2 == (baseHsl.h + 240) % 360
      minDiff == [i \in 1..Len(arr) |->
                   LET h == hexToHsl(arr[i].hex).h
                   IN  Min2(HueDiff(h, triadic1),
                            Min2(HueDiff(h, triadic2), HueDiff(h, baseHsl.h)))]
      passes == [i \in 1..Len(arr) |-> arr[i].hex # baseHex /\ minDiff[i] <= 45]
      triadicColors == FindByHex(arr, baseHex) \o Pushes(arr, passes, "hueDiff", minDiff)
  IN  SortByField(triadicColors, "hueDiff")

\* Lines 210-250.
findTriadicColorsFromCollection(arr, baseHex, count) ==
  LET baseHsl == hexToHsl(baseHex)
      triadic1 == (baseHsl.h + 120) % 360
      triadic2 == (baseHsl.h + 240) % 360
      minDiff == [i \in 1..Len(arr) |->
                   LET h == hexToHsl(arr[i].hex).h
                   IN  Min2(HueDiff(h, triadic1),
                            Min2(HueDiff(h, triadic2), HueDiff(h, baseHsl.h)))]
      passes == [i \in 1..Len(arr) |-> arr[i].hex # baseHex /\ minDiff[i] <= 45]
      triadicColors == FindByHex(arr, baseHex) \o Pushes(arr, passes, "hueDiff", minDiff)
  IN  slice(SortByField(triadicColors, "hueDiff"), Default(count, 6))

\* Mutant of findMonochromaticColorsFromCollection: the comparator of the
\* other searches, a.hueDiff - b.hueDiff, on elements that have no hueDiff.
findMonochromaticByHueDiff(arr, baseHex, count) ==
  LET baseHsl == hexToHsl(baseHex)
      passes == [i \in 1..Len(arr) |->
                  HueDiff(hexToHsl(arr[i].hex).h, baseHsl.h) <= 15]
      lightnessDiff == [i \in 1..Len(arr) |-> Abs(hexToHsl(arr[i].hex).l - baseHsl.l)]
      monochromaticColors == Pushes(arr, passes, "lightnessDiff", lightnessDiff)
  IN  slice(SortByField(monochromaticColors, "hueDiff"), Default(count, 5))

\* Lines 259-281.
findMonochromaticColorsFromCollection(arr, baseHex, count) ==
  LET baseHsl == hexToHsl(baseHex)
      passes == [i \in 1..Len(arr) |->
                  HueDiff(hexToHsl(arr[i].hex).h, baseHsl.h) <= 15]
      lightnessDiff == [i \in 1..Len(arr) |-> Abs(hexToHsl(arr[i].hex).l - baseHsl.l)]
      monochromaticColors == Pushes(arr, passes, "lightnessDiff", lightnessDiff)
  IN  slice(SortByField(monochromaticColors, "lightnessDiff"), Default(count, 5))

\* Lines 290-329.
findSplitComplementaryFromCollection(arr, baseHex, count) ==
  LET baseHsl == hexToHsl(baseHex)
      comp1 == (baseHsl.h + 150) % 360
      comp2 == (baseHsl.h + 210) % 360
      minDiff == [i \in 1..Len(arr) |->
                   LET h == hexToHsl(arr[i].hex).h
                   IN  Min2(HueDiff(h, comp1),
                            Min2(HueDiff(h, comp2), HueDiff(h, baseHsl.h)))]
      passes == [i \in 1..Len(arr) |-> arr[i].hex # baseHex /\ minDiff[i] <= 30]
      splitColors == FindByHex(arr, baseHex) \o Pushes(arr, passes, "hueDiff", minDiff)
  IN  slice(SortByField(splitColors, "hueDiff"), Default(count, 5))

(***************************************************************************)
(* generateSmartPaletteSuggestions, lines 336-374.                         *)
(***************************************************************************)
\* An argument that is given.
Given(n) == [given |-> TRUE, v |-> n]

\* The template literal `${prefix}${baseColor.name}`, as its two parts.
Label(prefix, baseColor) == <<prefix, baseColor.name>>

\* Mutant of SuggestionsFor: the complementary suggestion is gated by
\* index < 3, like the analogous one.
SuggestionsForWide(arr, baseColor, index) ==
  (IF index < 3
     THEN <<[name |-> Label("Análoga desde ", baseColor),
             type |-> "analogous",
             baseColor |-> baseColor,
             colors |-> findAnalogousColorsFromCollection(arr, baseColor.hex, Given(5))]>>
     ELSE <<>>)
  \o
  (IF index < 3
     THEN <<[name |-> Label("Complementaria desde ", baseColor),
             type |-> "complementary",
             baseColor |-> baseColor,
             colors |-> findComplementaryColorsFromCollection(arr, baseColor.hex, Given(4))]>>
     ELSE <<>>)
  \o
  (IF index < 2
     THEN <<[name |-> Label("Triádica desde ", baseColor),
             type |-> "triadic",
             baseColor |-> baseColor,
             colors |-> findTriadicColorsFromCollection(arr, baseColor.hex, Given(6))]>>
     ELSE <<>>)

\* Lines 345-370: what the callback pushes for baseColor at position index.
SuggestionsFor(arr, baseColor, index) ==
  (IF index < 3
     THEN <<[name |-> Label("Análoga desde ", baseColor),
             type |-> "analogous",
             baseColor |-> baseColor,
             colors |-> findAnalogousColorsFromCollection(arr, baseColor.hex, Given(5))]>>
     ELSE <<>>)
  \o
  (IF index < 2
     THEN <<[name |-> Label("Complementaria desde ", baseColor),
             type |-> "complementary",
             baseColor |-> baseColor,
             colors |-> findComplementaryColorsFromCollection(arr, baseColor.hex, Given(4))]>>
     ELSE <<>>)
  \o
  (IF index < 2
     THEN <<[name |-> Label("Triádica desde ", baseColor),
             type |-> "triadic",
             baseColor |-> baseColor,
             colors |-> findTriadicColorsFromCollection(arr, baseColor.hex, Given(6))]>>
     ELSE <<>>)

\* baseColors.forEach((baseColor, index) => ..) from position index on.
RECURSIVE ForEachBase(_, _, _)
ForEachBase(arr, baseColors, index) ==
  IF index >= Len(baseColors) THEN <<>>
  ELSE SuggestionsFor(arr, baseColors[index + 1], index)
         \o ForEachBase(arr, baseColors, index + 1)

HasThreeColors(suggestion) == Len(suggestion.colors) >= 3

generateSmartPaletteSuggestions(arr) ==
  IF Len(arr) < 3 THEN <<>>
  ELSE LET baseColors == slice(arr, Min2(5, Len(arr)))
       IN  SelectSeq(ForEachBase(arr, baseColors, 0), HasThreeColors)

(***************************************************************************)
(* The conversion calls.                                                   *)
(***************************************************************************)
\* Channel values the conversion calls are made on.
PickedChannels == {121, 128, 228, 230, 255}
ChannelInputs == (0..MaxChannel) \cup PickedChannels

\* Valid 6-digit hex strings: upper case with '#', upper case without '#',
\* lower case with '#'.
HexInputs ==
  UNION {{FormatRgb(r, g, b),
          Tail(FormatRgb(r, g, b)),
          <<"#">> \o toString16Pad2(r) \o toString16Pad2(g) \o toString16Pad2(b)} :
         r \in ChannelInputs, g \in ChannelInputs, b \in ChannelInputs}

\* The largest difference of two colours over the R, G and B channels.
ChannelDistance(hexA, hexB) ==
  LET a == Channels(hexA)
      b == Channels(hexB)
  IN  Max2(Abs(a.r - b.r), Max2(Abs(a.g - b.g), Abs(a.b - b.b)))

\* The caller holds a hex string and has called nothing yet.
InitConv ==
  /\ fn = "none"
  /\ args \in [hex : HexInputs]
  /\ ret = <<>>
  /\ colors = <<>>

CallHexToHsl ==
  /\ hexToHslExact(args.hex)
  /\ fn' = "hexToHsl"
  /\ ret' = hexToHsl(args.hex)
  /\ UNCHANGED <<args, colors>>

\* hslToHex(h, s, l) with {h, s, l} = hexToHsl(hex).
CallRoundTrip ==
  /\ hexToHslExact(args.hex)
  /\ HslToHexExact(hexToHsl(args.hex))
  /\ fn' = "roundTrip"
  /\ ret' = HslToHex(hexToHsl(args.hex))
  /\ UNCHANGED <<args, colors>>

CallGetComplementaryColor ==
  /\ getComplementaryColorExact(args.hex)
  /\ fn' = "getComplementaryColor"
  /\ ret' = getComplementaryColor(args.hex)
  /\ UNCHANGED <<args, colors>>

\* getComplementaryColor(getComplementaryColor(hex)).
CallDoubleComplement ==
  /\ getComplementaryColorExact(args.hex)
  /\ getComplementaryColorExact(getComplementaryColor(args.hex))
  /\ fn' = "doubleComplement"
  /\ ret' = getComplementaryColor(getComplementaryColor(args.hex))
  /\ UNCHANGED <<args, colors>>

NextConv ==
  \/ CallHexToHsl
  \/ CallRoundTrip
  \/ CallGetComplementaryColor
  \/ CallDoubleComplement

SpecConv == InitConv /\ [][NextConv]_vars

(***************************************************************************)
(* The calls on a collection.                                              *)
(***************************************************************************)
\* A colour object of the caller's, with the hex string "#RRGGBB".
Color(r, g, b, name) == [hex |-> FormatRgb(r, g, b), name |-> name]

Red     == Color(255, 0, 0, "red")            \* hsl(0, 100, 50)
Crimson == Color(255, 0, 0, "crimson")        \* a second entry of the same hex
Ember   == Color(255, 0, 1, "ember")          \* hsl(360, 100, 50)
Maroon  == Color(128, 0, 0, "maroon")         \* hsl(0, 100, 25)
Gray    == Color(128, 128, 128, "gray")       \* hsl(0, 0, 50)
Rust    == Color(183, 32, 0, "rust")          \* hsl(10, 100, 36)
Flame   == Color(255, 64, 0, "flame")         \* hsl(15, 100, 50)
Brick   == Color(128, 34, 0, "brick")         \* hsl(16, 100, 25)
Brown   == Color(127, 64, 0, "brown")         \* hsl(30, 100, 25)
Yellow  == Color(255, 255, 0, "yellow")       \* hsl(60, 100, 50)
Olive   == Color(128, 153, 0, "olive")        \* hsl(70, 100, 30)
Green   == Color(0, 255, 0, "green")          \* hsl(120, 100, 50)
Teal    == Color(0, 192, 192, "teal")         \* hsl(180, 100, 38)
Azure   == Color(0, 128, 192, "azure")        \* hsl(200, 100, 38)
Navy    == Color(0, 32, 128, "navy")          \* hsl(225, 100, 25)
Rose    == Color(255, 0, 43, "rose")          \* hsl(350, 100, 50)
\* A colour object that carries a field named hueDiff of the caller's own
\* (for one, an element of an earlier search result).
Cyan    == Annotate(Color(0, 255, 255, "cyan"), "hueDiff", 500)   \* hsl(180, 100, 50)

\* The arrays of at most n elements over a set of colours.
Collections(swatches, n) == UNION {[1..k -> swatches] : k \in 0..n}

\* The count argument: omitted, or 0..MaxCount.
CountInputs == {[given |-> FALSE, v |-> 0]} \cup {Given(n) : n \in 0..MaxCount}

\* Every hex string of the call converts without a rounding at a half.
AllExact(arr) == \A i \in 1..Len(arr) : hexToHslExact(arr[i].hex)

\* The caller holds a collection, a base hex string and a count.
InitCollection(swatches, bases, n) ==
  /\ fn = "none"
  /\ args \in [colors : Collections(swatches, n),
               baseHex : {c.hex : c \in bases},
               count : CountInputs]
  /\ ret = <<>>
  /\ colors = args.colors

\* The caller holds a collection.
InitColors(swatches, n) ==
  /\ fn = "none"
  /\ args \in [colors : Collections(swatches, n)]
  /\ ret = <<>>
  /\ colors = args.colors

\* A call of a sort: the array returned, and the argument array after it.
CallSort(name, result) ==
  /\ AllExact(colors)
  /\ fn' = name
  /\ ret' = result.ret
  /\ colors' = result.colors
  /\ UNCHANGED args

CallSortColorsByHue == CallSort("sortColorsByHue", sortColorsByHue(colors))
CallSortColorsBySaturation == CallSort("sortColorsBySaturation", sortColorsBySaturation(colors))
CallSortColorsByLightness == CallSort("sortColorsByLightness", sortColorsByLightness(colors))
CallSortColorsChromatically == CallSort("sortColorsChromatically", sortColorsChromatically(colors))

\* A call of a search, which builds its result from copies.
CallSearch(name, result) ==
  /\ AllExact(colors)
  /\ hexToHslExact(args.baseHex)
  /\ fn' = name
  /\ ret' = result
  /\ UNCHANGED <<args, colors>>

CallFindAnalogous ==
  CallSearch("findAnalogousColorsFromCollection",
             findAnalogousColorsFromCollection(colors, args.baseHex, args.count))
CallFindComplementary ==
  CallSearch("findComplementaryColorsFromCollection",
             findComplementaryColorsFromCollection(colors, args.baseHex, args.count))
CallFindTriadic ==
  CallSearch("findTriadicColorsFromCollection",
             findTriadicColorsFromCollection(colors, args.baseHex, args.count))
CallFindMonochromatic ==
  CallSearch("findMonochromaticColorsFromCollection",
             findMonochromaticColorsFromCollection(colors, args.baseHex, args.count))
CallFindSplitComplementary ==
  CallSearch("findSplitComplementaryFromCollection",
             findSplitComplementaryFromCollection(colors, args.baseHex, args.count))

CallGenerateSmartPaletteSuggestions ==
  /\ AllExact(colors)
  /\ fn' = "generateSmartPaletteSuggestions"
  /\ ret' = generateSmartPaletteSuggestions(colors)
  /\ UNCHANGED <<args, colors>>

\* The sorts, on collections with equal and unequal keys.
SortSwatches == {Rose, Rust, Teal, Gray, Maroon}
InitSort == InitColors(SortSwatches, MaxLen)
NextSort ==
  \/ CallSortColorsByHue
  \/ CallSortColorsBySaturation
  \/ CallSortColorsByLightness
  \/ CallSortColorsChromatically
SpecSort == InitSort /\ [][NextSort]_vars

\* The analogous search: hues at 10, 60, 70 and 200 degrees from hue 0, and
\* a colour for which hexToHsl gives the hue 360.
AnalogousSwatches == {Red, Ember, Rust, Yellow, Olive, Azure}
InitAnalogous == InitCollection(AnalogousSwatches, {Red, Rust}, MaxLen)
NextAnalogous == CallFindAnalogous
SpecAnalogous == InitAnalogous /\ [][NextAnalogous]_vars

\* The complementary search: from Red, Navy is 45 degrees from the
\* complement and Brown 30 degrees from the base.
ComplementarySwatches == {Red, Crimson, Cyan, Navy, Brown}
InitComplementary == InitCollection(ComplementarySwatches, {Red, Cyan, Brown}, MaxLen)
NextComplementary == CallFindComplementary
SpecComplementary == InitComplementary /\ [][NextComplementary]_vars

\* The monochromatic search: from Red, Maroon is nearer in hue and farther
\* in lightness than Flame; Brick is 16 degrees away.
MonochromaticSwatches == {Red, Maroon, Flame, Brick, Rust}
InitMonochromatic == InitCollection(MonochromaticSwatches, {Red, Rust}, MaxLen)
NextMonochromatic == CallFindMonochromatic
SpecMonochromatic == InitMonochromatic /\ [][NextMonochromatic]_vars

\* The five searches together.
HarmonySwatches == {Red, Cyan, Green, Brown}
InitHarmony == InitCollection(HarmonySwatches, {Red, Cyan}, MaxLen)
NextHarmony ==
  \/ CallFindAnalogous
  \/ CallFindComplementary
  \/ CallFindTriadic
  \/ CallFindMonochromatic
  \/ CallFindSplitComplementary
SpecHarmony == InitHarmony /\ [][NextHarmony]_vars

\* The aggregator, on collections of up to MaxSuggestLen colours.
SuggestSwatches == {Red, Rust, Teal}
InitSuggest == InitColors(SuggestSwatches, MaxSuggestLen)
NextSuggest == CallGenerateSmartPaletteSuggestions
SpecSuggest == InitSuggest /\ [][NextSuggest]_vars

(***************************************************************************)
(* Claims about the conversions.                                           *)
(***************************************************************************)
\* C1: hexToHsl of a valid 6-digit hex string returns a hue h with
\* 0 <= h < 360 (never 360), a saturation 0 <= s <= 100 and a lightness
\* 0 <= l <= 100.
C1_HslInRange ==
  fn = "hexToHsl" =>
    /\ ret.h \in 0..359
    /\ ret.s \in 0..100
    /\ ret.l \in 0..100

\* C2: hslToHex(hexToHsl(H)) differs from H by at most 1 in each of the
\* R, G and B channels.
C2_RoundTripWithinOne ==
  fn = "roundTrip" => ChannelDistance(args.hex, ret) <= 1

\* C3 as stated: getComplementaryColor(getComplementaryColor(H)) differs
\* from H by at most 1 in each channel.
C3_DoubleComplementWithinOne ==
  fn = "doubleComplement" => ChannelDistance(args.hex, ret) <= 1

\* C3 as amended: getComplementaryColor(getComplementaryColor(H)) differs
\* from H by at most 5 in each channel (the integer rounding of h, s and l
\* on the way costs more than one step of a channel).
C3_DoubleComplementWithinFive ==
  fn = "doubleComplement" => ChannelDistance(args.hex, ret) <= 5

\* A double complement that ends exactly 5 away from where it started.
C3_Witness ==
  /\ fn = "doubleComplement"
  /\ ChannelDistance(args.hex, ret) = 5

(***************************************************************************)
(* Claims about the sorts.                                                 *)
(***************************************************************************)
Hue(color) == hexToHsl(color.hex).h
Saturation(color) == hexToHsl(color.hex).s
Lightness(color) == hexToHsl(color.hex).l

\* The number of positions of arr that hold x.
Occurrences(arr, x) == Cardinality({i \in 1..Len(arr) : arr[i] = x})

IsPermutation(a, b) ==
  /\ Len(a) = Len(b)
  /\ \A i \in 1..Len(a) : Occurrences(a, a[i]) = Occurrences(b, a[i])

SortNames == {"sortColorsByHue", "sortColorsChromatically",
              "sortColorsBySaturation", "sortColorsByLightness"}

\* ret[k] may stand before ret[k + 1] in the order the sort fn promises.
InOrder(a, b) ==
  CASE fn \in {"sortColorsByHue", "sortColorsChromatically"} -> Hue(a) <= Hue(b)
    [] fn = "sortColorsBySaturation" -> Saturation(a) >= Saturation(b)
    [] fn = "sortColorsByLightness" -> Lightness(a) <= Lightness(b)

BaseHue == hexToHsl(args.baseHex).h
BaseLightness == hexToHsl(args.baseHex).l

\* The sequence a stable ascending sort by score gives the copies of the
\* colours at the positions Q, score[i] and copy[i] being the score and the
\* copy of the colour at position i: the r-th element is the copy of the
\* colour that has r - 1 colours of Q before it, those of a smaller score
\* and those of the same score that come earlier in the collection.
Ranked(Q, score, copy) ==
  LET before(i) == {j \in Q : \/ score[j] < score[i]
                               \/ /\ score[j] = score[i]
                                  /\ j < i}
      at(r) == CHOOSE i \in Q : Cardinality(before(i)) = r - 1
  IN  [r \in 1..Cardinality(Q) |-> copy[at(r)]]

\* The positions of the collection.
Positions == 1..Len(args.colors)

IsPrefixOfLength(a, b, n) ==
  /\ Len(a) = Min2(n, Len(b))
  /\ \A r \in 1..Len(a) : a[r] = b[r]

\* --- analogous ---
AnalogousScore(color) == HueDiff(Hue(color), BaseHue)
IsAnalogous(color) == AnalogousScore(color) <= 60
AnalogousCopy(color) == Annotate(color, "hueDiff", AnalogousScore(color))

\* C6: findAnalogousColorsFromCollection returns exactly the first count
\* (default 5) entries of the list of all collection colours within 60
\* degrees (60 included) of the base hue in circular distance, in ascending
\* order of that distance; all of them when fewer than count qualify, and
\* nothing for an empty collection.
C6_AnalogousIsClosestWithinSixty ==
  fn = "findAnalogousColorsFromCollection" =>
    IsPrefixOfLength(ret,
                     Ranked({i \in Positions : IsAnalogous(args.colors[i])},
                            [i \in Positions |-> AnalogousScore(args.colors[i])],
                            [i \in Positions |-> AnalogousCopy(args.colors[i])]),
                     Default(args.count, 5))

\* Base hue 0 and the hues 10, 70 and 200: only the colour at 10 is returned.
C6_Witness ==
  /\ fn = "findAnalogousColorsFromCollection"
  /\ args.baseHex = Red.hex
  /\ args.colors = <<Olive, Rust, Azure>>
  /\ ret = <<Annotate(Rust, "hueDiff", 10)>>

\* --- monochromatic ---
MonochromaticScore(color) == Abs(Lightness(color) - BaseLightness)
IsMonochromatic(color) == HueDiff(Hue(color), BaseHue) <= 15
MonochromaticCopy(color) == Annotate(color, "lightnessDiff", MonochromaticScore(color))

\* C8: findMonochromaticColorsFromCollection selects the colours within 15
\* degrees of the base hue and ranks them by |lightness - base lightness|
\* alone: of two such colours A and B, A nearer in hue and farther in
\* lightness, A is only returned after B.
C8_MonochromaticRanksByLightness ==
  fn = "findMonochromaticColorsFromCollection" =>
    /\ IsPrefixOfLength(ret,
                        Ranked({i \in Positions : IsMonochromatic(args.colors[i])},
                               [i \in Positions |-> MonochromaticScore(args.colors[i])],
                               [i \in Positions |-> MonochromaticCopy(args.colors[i])]),
                        Default(args.count, 5))
    /\ \A a, b \in Positions :
         LET A == args.colors[a]
             B == args.colors[b]
         IN  /\ IsMonochromatic(A)
             /\ IsMonochromatic(B)
             /\ HueDiff(Hue(A), BaseHue) < HueDiff(Hue(B), BaseHue)
             /\ MonochromaticScore(A) > MonochromaticScore(B)
             => \A p \in 1..Len(ret) :
                  ret[p] = MonochromaticCopy(A)
                  => \E q \in 1..(p - 1) : ret[q] = MonochromaticCopy(B)

\* From Red, Maroon (same hue, 25 away in lightness) is returned after
\* Flame (15 degrees away, same lightness), though it comes first in the
\* collection.
C8_Witness ==
  /\ fn = "findMonochromaticColorsFromCollection"
  /\ args.baseHex = Red.hex
  /\ args.colors = <<Maroon, Flame>>
  /\ ret = <<Annotate(Flame, "lightnessDiff", 0), Annotate(Maroon, "lightnessDiff", 25)>>

\* --- complementary ---
ComplementaryHue == (BaseHue + 180) % 360
IsBase(color) == color.hex = args.baseHex
IsPrimary(color) == ~IsBase(color) /\ HueDiff(Hue(color), ComplementaryHue) <= 45
IsFallback(color) == ~IsBase(color) /\ HueDiff(Hue(color), BaseHue) <= 30
BasePresent == \E i \in 1..Len(args.colors) : IsBase(args.colors[i])

\* A colour without the scores a search adds.
Strip(color) == [f \in DOMAIN color \ {"hueDiff", "lightnessDiff"} |-> color[f]]

\* C4: when the collection holds an entry whose hex is exactly baseHex and
\* count >= 1, the first element findComplementaryColorsFromCollection
\* returns is that entry (the first one of that hex).
C4_BaseFirst ==
  /\ fn = "findComplementaryColorsFromCollection"
  /\ BasePresent
  /\ Default(args.count, 4) >= 1
  => /\ Len(ret) >= 1
     /\ ret[1] = FindByHex(args.colors, args.baseHex)[1]

\* C4, for a base entry that carries no hueDiff of its own: it is first.
C4_BaseFirstWithoutOwnHueDiff ==
  /\ fn = "findComplementaryColorsFromCollection"
  /\ BasePresent
  /\ "hueDiff" \notin DOMAIN FindByHex(args.colors, args.baseHex)[1]
  /\ Default(args.count, 4) >= 1
  => /\ Len(ret) >= 1
     /\ ret[1] = FindByHex(args.colors, args.baseHex)[1]

\* C10: in findComplementaryColorsFromCollection no colour is both a primary
\* match (within 45 degrees of base hue + 180) and a fallback match (within
\* 30 degrees of the base hue) and no collection entry is returned twice;
\* a primary match carries its distance, at most 45, a fallback match 1000
\* plus its distance; no fallback match stands before a primary match, and
\* a result that holds a fallback match holds every primary match.
C10_FallbackAfterPrimary ==
  fn = "findComplementaryColorsFromCollection" =>
    /\ \A i \in 1..Len(args.colors) :
         ~(IsPrimary(args.colors[i]) /\ IsFallback(args.colors[i]))
    /\ \A k \in 1..Len(ret) :
         Cardinality({j \in 1..Len(ret) : Strip(ret[j]) = Strip(ret[k])})
           <= Cardinality({i \in 1..Len(args.colors) :
                             Strip(args.colors[i]) = Strip(ret[k])})
    /\ \A k \in 1..Len(ret) :
         \/ IsBase(ret[k])
         \/ /\ IsPrimary(ret[k])
            /\ ret[k].hueDiff = HueDiff(Hue(ret[k]), ComplementaryHue)
            /\ ret[k].hueDiff <= 45
         \/ /\ IsFallback(ret[k])
            /\ ret[k].hueDiff = 1000 + HueDiff(Hue(ret[k]), BaseHue)
            /\ ret[k].hueDiff >= 1000
    /\ \A p, q \in 1..Len(ret) :
         p < q => ~(IsFallback(ret[p]) /\ IsPrimary(ret[q]))
    /\ (\E k \in 1..Len(ret) : IsFallback(ret[k]))
         => Cardinality({k \in 1..Len(ret) : IsPrimary(ret[k])})
              = Cardinality({i \in Positions : IsPrimary(args.colors[i])})

\* A collection with a primary and a fallback match, cut to one element:
\* the primary match stays.
C10_Witness ==
  /\ fn = "findComplementaryColorsFromCollection"
  /\ args.baseHex = Red.hex
  /\ args.colors = <<Brown, Navy>>
  /\ args.count = Given(1)
  /\ ret = <<Annotate(Navy, "hueDiff", 45)>>

\* --- the five searches ---
SearchNames == {"findAnalogousColorsFromCollection",
                "findComplementaryColorsFromCollection",
                "findTriadicColorsFromCollection",
                "findMonochromaticColorsFromCollection",
                "findSplitComplementaryFromCollection"}

\* The searches that put the base entry first and keep it out of the scan.
BaseFirstNames == {"findComplementaryColorsFromCollection",
                   "findTriadicColorsFromCollection",
                   "findSplitComplementaryFromCollection"}

ScoreField == IF fn = "findMonochromaticColorsFromCollection"
                THEN "lightnessDiff" ELSE "hueDiff"

NearestOfThree(color, first, second) ==
  Min2(HueDiff(Hue(color), (BaseHue + first) % 360),
       Min2(HueDiff(Hue(color), (BaseHue + second) % 360),
            HueDiff(Hue(color), BaseHue)))

\* The difference score the search fn gives a colour it selects.
Score(color) ==
  CASE fn = "findAnalogousColorsFromCollection" -> AnalogousScore(color)
    [] fn = "findComplementaryColorsFromCollection" ->
         IF IsPrimary(color) THEN HueDiff(Hue(color), ComplementaryHue)
         ELSE 1000 + HueDiff(Hue(color), BaseHue)
    [] fn = "findTriadicColorsFromCollection" -> NearestOfThree(color, 120, 240)
    [] fn = "findMonochromaticColorsFromCollection" -> MonochromaticScore(color)
    [] fn = "findSplitComplementaryFromCollection" -> NearestOfThree(color, 150, 210)

\* The count the search fn applies.
Limit ==
  CASE fn = "findAnalogousColorsFromCollection" -> Default(args.count, 5)
    [] fn = "findComplementaryColorsFromCollection" -> Default(args.count, 4)
    [] fn = "findTriadicColorsFromCollection" -> Default(args.count, 6)
    [] fn = "findMonochromaticColorsFromCollection" -> Default(args.count, 5)
    [] fn = "findSplitComplementaryFromCollection" -> Default(args.count, 5)

\* element is a collection entry copied and given its score.
IsScoredCopy(element) ==
  \E i \in 1..Len(args.colors) :
    element = Annotate(args.colors[i], ScoreField, Score(args.colors[i]))

\* element is the base entry as the collection holds it, put first by a
\* search that does so.
IsBaseEntry(element) ==
  /\ fn \in BaseFirstNames
  /\ BasePresent
  /\ element = FindByHex(args.colors, args.baseHex)[1]

\* C5 as stated: every element a search returns is a copy of a collection
\* entry annotated with its difference score, the elements are in
\* non-decreasing order of that score, and there are at most count of them.
C5_AllScoredCopiesInOrder ==
  fn \in SearchNames =>
    /\ \A k \in 1..Len(ret) : IsScoredCopy(ret[k])
    /\ \A k \in 1..(Len(ret) - 1) :
         /\ ScoreField \in DOMAIN ret[k]
         /\ ScoreField \in DOMAIN ret[k + 1]
         /\ ret[k][ScoreField] <= ret[k + 1][ScoreField]
    /\ Len(ret) <= Limit

\* C5 as amended: every element a search returns is a copy of a collection
\* entry annotated with its difference score, or, in the complementary,
\* triadic and split-complementary searches, the base entry itself, which
\* is returned as the collection holds it, without a computed score; the
\* scored copies are in non-decreasing order of score, and the result holds
\* at most count elements.
C5_ScoredCopiesInOrderBesideBase ==
  fn \in SearchNames =>
    /\ \A k \in 1..Len(ret) :
         IF fn \in BaseFirstNames /\ IsBase(ret[k])
           THEN IsBaseEntry(ret[k])
           ELSE IsScoredCopy(ret[k])
    /\ \A p, q \in 1..Len(ret) :
         /\ p < q
         /\ ~(fn \in BaseFirstNames /\ IsBase(ret[p]))
         /\ ~(fn \in BaseFirstNames /\ IsBase(ret[q]))
         => ret[p][ScoreField] <= ret[q][ScoreField]
    /\ Len(ret) <= Limit

\* A triadic search that returns the base entry, unscored, and then two
\* scored copies.
C5_Witness ==
  /\ fn = "findTriadicColorsFromCollection"
  /\ Len(ret) = 3
  /\ ret[1] = Red
  /\ ret[2] = Annotate(Green, "hueDiff", 0)
  /\ ret[3] = Annotate(Brown, "hueDiff", 30)

(***************************************************************************)
(* Claims about the aggregator.                                            *)
(***************************************************************************)
\* The suggestion of a kind from the colour at a position (from 1).
SuggestionAt(type, position) ==
  LET baseColor == args.colors[position]
  IN  CASE type = "analogous" ->
             [name |-> <<"Análoga desde ", baseColor.name>>,
              type |-> type, baseColor |-> baseColor,
              colors |-> findAnalogousColorsFromCollection(
                           args.colors, baseColor.hex, Given(5))]
        [] type = "complementary" ->
             [name |-> <<"Complementaria desde ", baseColor.name>>,
              type |-> type, baseColor |-> baseColor,
              colors |-> findComplementaryColorsFromCollection(
                           args.colors, baseColor.hex, Given(4))]
        [] type = "triadic" ->
             [name |-> <<"Triádica desde ", baseColor.name>>,
              type |-> type, baseColor |-> baseColor,
              colors |-> findTriadicColorsFromCollection(
                           args.colors, baseColor.hex, Given(6))]

\* The seven suggestions in the order of emission.
Emitted ==
  <<SuggestionAt("analogous", 1), SuggestionAt("complementary", 1),
    SuggestionAt("triadic", 1),
    SuggestionAt("analogous", 2), SuggestionAt("complementary", 2),
    SuggestionAt("triadic", 2),
    SuggestionAt("analogous", 3)>>

\* C7: generateSmartPaletteSuggestions returns nothing for fewer than 3
\* colours; otherwise exactly those of the seven suggestions [analogous,
\* complementary, triadic from colors[0]; the same from colors[1]; analogous
\* from colors[2]], in that order, whose colors list has at least 3 entries.
C7_SuggestionsAreTheSevenFiltered ==
  fn = "generateSmartPaletteSuggestions" =>
    IF Len(args.colors) < 3
      THEN ret = <<>>
      ELSE /\ ret = SelectSeq(Emitted, HasThreeColors)
           /\ Len(ret) <= 7
           /\ \A k \in 1..Len(ret) : Len(ret[k].colors) >= 3

\* A collection of more than five colours, for which some of the seven
\* suggestions are returned and some are dropped.
C7_Witness ==
  /\ fn = "generateSmartPaletteSuggestions"
  /\ Len(args.colors) > 5
  /\ Len(ret) \in 1..6

====
